---- MODULE Spec2Model ----
(***************************************************************************)
(* nestdictutils: recursive operations over nested dictionaries.           *)
(*                                                                         *)
(* A dictionary is an object on the heap: heap[a] is the dictionary at     *)
(* address a, a sequence of <<key, value>> items in insertion order (the   *)
(* iteration order of a Python dict).  A value is <<"L", n>> (a leaf, the  *)
(* integer n) or <<"B", a>> (a reference to the dictionary at address a).  *)
(* Every library function is an operator that threads the heap, so that    *)
(* mutation through a shared reference is visible to every holder.         *)
(***************************************************************************)
EXTENDS Integers, Sequences, FiniteSets, TLC

\* ---------------------------------------------------------------- bounds
\* the most entries, at all depths, of a generated dictionary
MaxEntries == 3
\* the longest key path passed to add, replace and remove
MaxPathLen == 3
\* the most dictionaries merged, and the most entries they have in all
MaxTrees == 3
MaxMergeEntries == 3
\* the most <<key path, value>> pairs given to build, and their longest key path
MaxBuildEntries == 3
MaxBuildPathLen == 2

\* the keys and the leaf values of the generated dictionaries; they overlap,
\* so that a value searched for can also be a key
Keys == {1, 2}
Leaves == {1, 2}

\* ------------------------------------------------------------ data model
Leaf(n) == <<"L", n>>
Ref(a) == <<"B", a>>
IsDict(v) == v[1] = "B"

Range(s) == {s[i] : i \in 1..Len(s)}
KeysOf(b) == {b[i][1] : i \in 1..Len(b)}
HasKey(b, k) == \E i \in 1..Len(b) : b[i][1] = k
PosOf(b, k) == CHOOSE i \in 1..Len(b) : b[i][1] = k
GetItem(b, k) == b[PosOf(b, k)][2]

\* d[k] = v on a dict: an existing key keeps its position, a new key is appended
SetItem(b, k, v) ==
    IF HasKey(b, k) THEN [b EXCEPT ![PosOf(b, k)] = <<k, v>>] ELSE Append(b, <<k, v>>)

\* del d[k]
DelItem(b, k) ==
    LET p == PosOf(b, k) IN [i \in 1..(Len(b) - 1) |-> IF i < p THEN b[i] ELSE b[i + 1]]

\* ------------------------------------------------- dictionary literals
\* A literal is <<"L", n>> or <<"D", items>>, items a sequence of <<key, literal>>.
RECURSIVE LitSize(_)
LitSize(t) ==
    IF t[1] = "L" THEN 0
    ELSE LET RECURSIVE Sum(_)
             Sum(i) == IF i > Len(t[2]) THEN 0 ELSE 1 + LitSize(t[2][i][2]) + Sum(i + 1)
         IN Sum(1)

RECURSIVE LitItems(_, _)
\* every item sequence with at most n entries in all, top-level keys outside used
LitItems(n, used) ==
    {<<>>} \cup
    (IF n = 0 THEN {}
     ELSE UNION { UNION { { <<<<k, t>>>> \o rest :
                              rest \in LitItems(n - 1 - LitSize(t), used \cup {k}) } :
                          t \in {Leaf(x) : x \in Leaves}
                                \cup {<<"D", e>> : e \in LitItems(n - 1, {})} } :
                  k \in Keys \ used })

LitDicts(n) == {<<"D", e>> : e \in LitItems(n, {})}

\* the dictionary of the docstring examples
DocTree ==
    <<"D", << <<1, Leaf(2)>>,
              <<3, <<"D", << <<4, Leaf(5)>> >> >> >>,
              <<6, <<"D", << <<3, <<"D", << <<7, Leaf(8)>> >> >> >>, <<7, Leaf(10)>> >> >> >>,
              <<7, Leaf(11)>> >> >>

\* the dictionary of the docstring example of recursive_filter_dict
DocFilterTree ==
    <<"D", << <<1, Leaf(2)>>, <<3, <<"D", << <<4, Leaf(5)>> >> >> >>, <<7, Leaf(2)>> >> >>

\* Evaluating a literal allocates its dictionaries on the heap.
RECURSIVE Load(_, _)
RECURSIVE LoadItems(_, _, _, _)
LoadItems(h, a, items, i) ==
    IF i > Len(items) THEN h
    ELSE LET r == Load(h, items[i][2])
         IN LoadItems([r[1] EXCEPT ![a] = Append(@, <<items[i][1], r[2]>>)], a, items, i + 1)
Load(h, t) ==
    IF t[1] = "L" THEN <<h, t>>
    ELSE LET a == Len(h) + 1
         IN <<LoadItems(Append(h, <<>>), a, t[2], 1), Ref(a)>>

RECURSIVE LoadAll(_, _, _, _)
LoadAll(h, roots, ts, i) ==
    IF i > Len(ts) THEN <<h, roots>>
    ELSE LET r == Load(h, ts[i]) IN LoadAll(r[1], Append(roots, r[2]), ts, i + 1)

\* ---------------------------------------------- structure of a tree
\* The Python value of v (dict == is structural and ignores insertion order).
RECURSIVE Norm(_, _)
Norm(h, v) ==
    IF ~IsDict(v) THEN v
    ELSE <<"B", [k \in KeysOf(h[v[2]]) |-> Norm(h, GetItem(h[v[2]], k))]>>

\* addresses of the dictionaries reachable from v
RECURSIVE Reach(_, _)
Reach(h, v) ==
    IF ~IsDict(v) THEN {}
    ELSE {v[2]} \cup UNION {Reach(h, h[v[2]][i][2]) : i \in 1..Len(h[v[2]])}

\* paths of all nodes of v (the empty path is v itself)
RECURSIVE NodePaths(_, _)
NodePaths(h, v) ==
    IF ~IsDict(v) THEN {<<>>}
    ELSE {<<>>} \cup UNION { {<<h[v[2]][i][1]>> \o q : q \in NodePaths(h, h[v[2]][i][2])} :
                             i \in 1..Len(h[v[2]]) }

\* the node at path p below v (p must be one of NodePaths(h, v))
RECURSIVE At(_, _, _)
At(h, v, p) == IF p = <<>> THEN v ELSE At(h, GetItem(h[v[2]], Head(p)), Tail(p))

Prefix(p, n) == SubSeq(p, 1, n)
IsPrefix(p, q) == Len(p) <= Len(q) /\ Prefix(q, Len(p)) = p
IsProperPrefix(p, q) == Len(p) < Len(q) /\ Prefix(q, Len(p)) = p

\* ------------------------------------------- recursive_get_values_from_key
RECURSIVE get_values_step(_, _, _, _)
RECURSIVE get_values_loop(_, _, _, _, _)
get_values_loop(h, a, key, values, i) ==
    IF i > Len(h[a]) THEN values
    ELSE LET val == h[a][i][2]
         IN get_values_loop(h, a, key,
                            IF IsDict(val) THEN get_values_step(h, val[2], key, values)
                            ELSE values,
                            i + 1)
\* variant: a dictionary that holds the key is not searched any deeper
get_values_step_nodescent(h, a, key, values) ==
    IF HasKey(h[a], key) THEN Append(values, GetItem(h[a], key))
    ELSE get_values_loop(h, a, key, values, 1)

get_values_step(h, a, key, values) ==
    get_values_loop(h, a, key,
                    IF HasKey(h[a], key) THEN Append(values, GetItem(h[a], key)) ELSE values,
                    1)

\* variant: only the outermost dictionary is looked up
recursive_get_values_from_key_toplevel(h, d, key) ==
    IF HasKey(h[d[2]], key) THEN <<GetItem(h[d[2]], key)>> ELSE <<>>

recursive_get_values_from_key(h, d, key) == get_values_step(h, d[2], key, <<>>)

\* Python sequences: a list is unhashable, a tuple of keys is hashable
PyList(s) == <<"list", s>>
PyTuple(s) == <<"tuple", s>>
Hashable(x) == x[1] = "tuple"

\* v1 == v2 on Python values
PyEq(h, v1, v2) == v1[1] = v2[1] /\ Norm(h, v1) = Norm(h, v2)

\* ------------------------------------------------- recursive_get_key_paths
\* value is a non-dict object, the integer n; a matched pair is <<path list, n>>
RECURSIVE get_key_paths_step(_, _, _, _, _)
\* variant: keys equal to the value are not reported
get_key_paths_step_valuesonly(h, a, key_path, value, key_paths) ==
    LET RECURSIVE Loop(_, _)
        Loop(kps, i) ==
            IF i > Len(h[a]) THEN kps
            ELSE LET key == h[a][i][1]
                     val == h[a][i][2]
                     k2 == IF IsDict(val)
                           THEN get_key_paths_step(h, val[2], Append(key_path, key), value, kps)
                           ELSE kps
                     hit == <<PyList(Append(key_path, key)), value>>
                     k3 == IF val = Leaf(value) /\ hit \notin Range(k2)
                           THEN Append(k2, hit) ELSE k2
                 IN Loop(k3, i + 1)
    IN Loop(key_paths, 1)

get_key_paths_step(h, a, key_path, value, key_paths) ==
    LET RECURSIVE Loop(_, _)
        Loop(kps, i) ==
            IF i > Len(h[a]) THEN kps
            ELSE LET key == h[a][i][1]
                     val == h[a][i][2]
                     k1 == IF key = value THEN Append(kps, <<PyList(key_path), key>>) ELSE kps
                     k2 == IF IsDict(val)
                           THEN get_key_paths_step(h, val[2], Append(key_path, key), value, k1)
                           ELSE k1
                     hit == <<PyList(Append(key_path, key)), value>>
                     k3 == IF val = Leaf(value) /\ hit \notin Range(k2)
                           THEN Append(k2, hit) ELSE k2
                 IN Loop(k3, i + 1)
    IN Loop(key_paths, 1)

recursive_get_key_paths(h, d, value) == get_key_paths_step(h, d[2], <<>>, value, <<>>)

\* ------------------------------------------------ recursive_iter_key_paths
\* the generator, consumed to its end: the sequence of <<path list, value>>
RECURSIVE iter_key_paths_step(_, _, _)
\* variant: an item is yielded before the items below it
iter_key_paths_step_preorder(h, a, key_path) ==
    LET RECURSIVE Loop(_)
        Loop(i) ==
            IF i > Len(h[a]) THEN <<>>
            ELSE LET key == h[a][i][1]
                     val == h[a][i][2]
                 IN << <<PyList(Append(key_path, key)), val>> >>
                    \o (IF IsDict(val)
                        THEN iter_key_paths_step(h, val[2], Append(key_path, key))
                        ELSE <<>>)
                    \o Loop(i + 1)
    IN Loop(1)

\* variant: only the leaves are yielded
iter_key_paths_step_leavesonly(h, a, key_path) ==
    LET RECURSIVE Loop(_)
        Loop(i) ==
            IF i > Len(h[a]) THEN <<>>
            ELSE LET key == h[a][i][1]
                     val == h[a][i][2]
                 IN (IF IsDict(val)
                     THEN iter_key_paths_step(h, val[2], Append(key_path, key))
                     ELSE << <<PyList(Append(key_path, key)), val>> >>)
                    \o Loop(i + 1)
    IN Loop(1)

iter_key_paths_step(h, a, key_path) ==
    LET RECURSIVE Loop(_)
        Loop(i) ==
            IF i > Len(h[a]) THEN <<>>
            ELSE LET key == h[a][i][1]
                     val == h[a][i][2]
                 IN (IF IsDict(val)
                     THEN iter_key_paths_step(h, val[2], Append(key_path, key))
                     ELSE <<>>)
                    \o << <<PyList(Append(key_path, key)), val>> >>
                    \o Loop(i + 1)
    IN Loop(1)

recursive_iter_key_paths(h, d) == iter_key_paths_step(h, d[2], <<>>)

\* ----------------------------------------------------------- copy.deepcopy
\* st = [h, memo]; memo maps a copied dictionary to its copy
RECURSIVE deepcopy_value(_, _)
deepcopy_value(st, v) ==
    IF ~IsDict(v) THEN [h |-> st.h, memo |-> st.memo, v |-> v]
    ELSE IF v[2] \in DOMAIN st.memo
    THEN [h |-> st.h, memo |-> st.memo, v |-> Ref(st.memo[v[2]])]
    ELSE LET a == v[2]
             y == Len(st.h) + 1
             RECURSIVE Loop(_, _)
             Loop(s, i) ==
                 IF i > Len(s.h[a]) THEN s
                 ELSE LET r == deepcopy_value(s, s.h[a][i][2])
                      IN Loop([h |-> [r.h EXCEPT ![y] = SetItem(@, r.h[a][i][1], r.v)],
                               memo |-> r.memo], i + 1)
             s0 == [h |-> Append(st.h, <<>>), memo |-> (a :> y) @@ st.memo]
             s1 == Loop(s0, 1)
         IN [h |-> s1.h, memo |-> s1.memo, v |-> Ref(y)]

\* variant: copy.copy, a new outer dictionary holding the same values
deepcopy_shallow(h, v) == [h |-> Append(h, h[v[2]]), v |-> Ref(Len(h) + 1)]

deepcopy(h, v) == LET r == deepcopy_value([h |-> h, memo |-> <<>>], v) IN [h |-> r.h, v |-> r.v]

\* ------------------------------------------------------------ recursive_add
AddWarning(value, init_key_path) == <<"add_warning", value, init_key_path>>

\* st = [h, w]: the heap and the warnings logged so far; key_path is a
\* non-empty Python sequence
RECURSIVE add_step(_, _, _, _, _)
\* variant: an intermediate key is always given a new empty dictionary
add_step_reset(st, dv, key_path, value, init_key_path) ==
    IF IsDict(dv)
    THEN LET a == dv[2]
             k == key_path[2][1]
         IN IF Len(key_path[2]) = 1
            THEN [h |-> [st.h EXCEPT ![a] = SetItem(@, k, value)], w |-> st.w]
            ELSE LET h1 == [Append(st.h, <<>>) EXCEPT ![a] = SetItem(@, k, Ref(Len(st.h) + 1))]
                 IN add_step([h |-> h1, w |-> st.w], GetItem(h1[a], k),
                             <<key_path[1], Tail(key_path[2])>>, value, init_key_path)
    ELSE [h |-> st.h, w |-> Append(st.w, AddWarning(value, init_key_path))]

\* variant: the last key is set only when the dictionary does not hold it yet
add_step_setdefault(st, dv, key_path, value, init_key_path) ==
    IF IsDict(dv)
    THEN LET a == dv[2]
             k == key_path[2][1]
         IN IF Len(key_path[2]) = 1
            THEN [h |-> IF HasKey(st.h[a], k) THEN st.h
                        ELSE [st.h EXCEPT ![a] = SetItem(@, k, value)],
                  w |-> st.w]
            ELSE LET h1 == IF ~HasKey(st.h[a], k)
                           THEN [Append(st.h, <<>>) EXCEPT ![a] = SetItem(@, k, Ref(Len(st.h) + 1))]
                           ELSE st.h
                 IN add_step([h |-> h1, w |-> st.w], GetItem(h1[a], k),
                             <<key_path[1], Tail(key_path[2])>>, value, init_key_path)
    ELSE [h |-> st.h, w |-> Append(st.w, AddWarning(value, init_key_path))]

\* variant: the warning names the keys that were left, not the whole key path
add_step_restpath(st, dv, key_path, value, init_key_path) ==
    IF IsDict(dv)
    THEN LET a == dv[2]
             k == key_path[2][1]
         IN IF Len(key_path[2]) = 1
            THEN [h |-> [st.h EXCEPT ![a] = SetItem(@, k, value)], w |-> st.w]
            ELSE LET h1 == IF ~HasKey(st.h[a], k)
                           THEN [Append(st.h, <<>>) EXCEPT ![a] = SetItem(@, k, Ref(Len(st.h) + 1))]
                           ELSE st.h
                 IN add_step([h |-> h1, w |-> st.w], GetItem(h1[a], k),
                             <<key_path[1], Tail(key_path[2])>>, value, init_key_path)
    ELSE [h |-> st.h, w |-> Append(st.w, AddWarning(value, key_path))]

add_step(st, dv, key_path, value, init_key_path) ==
    IF IsDict(dv)
    THEN LET a == dv[2]
             k == key_path[2][1]
         IN IF Len(key_path[2]) = 1
            THEN [h |-> [st.h EXCEPT ![a] = SetItem(@, k, value)], w |-> st.w]
            ELSE LET h1 == IF ~HasKey(st.h[a], k)
                           THEN [Append(st.h, <<>>) EXCEPT ![a] = SetItem(@, k, Ref(Len(st.h) + 1))]
                           ELSE st.h
                 IN add_step([h |-> h1, w |-> st.w], GetItem(h1[a], k),
                             <<key_path[1], Tail(key_path[2])>>, value, init_key_path)
    ELSE [h |-> st.h, w |-> Append(st.w, AddWarning(value, init_key_path))]

\* the result: the heap, the returned value, the warnings, the error raised
recursive_add(h, dv, key_path, in_place) ==
    LET c == IF in_place THEN [h |-> h, v |-> dv] ELSE deepcopy(h, dv)
        r == add_step([h |-> c.h, w |-> <<>>], c.v, key_path[1], key_path[2], key_path[1])
    IN [h |-> r.h, ret |-> IF in_place THEN <<"None">> ELSE <<"tree", c.v>>,
        w |-> r.w, err |-> <<"none">>]

\* -------------------------------------------------------- recursive_replace
\* st = [h, err]; key_path = <<path, value>>, path a non-empty Python sequence;
\* indexing or testing membership in a leaf (an int) raises TypeError
RECURSIVE replace_step(_, _, _, _)
replace_step(st, dv, key_path, key_path_list) ==
    LET k == key_path[1][2][1]
    IN IF Len(key_path[1][2]) = 1
       THEN IF ~IsDict(dv) THEN [h |-> st.h, err |-> <<"TypeError", dv>>]
            ELSE IF ~HasKey(st.h[dv[2]], k)
            THEN [h |-> st.h, err |-> <<"KeyError", PyList(Append(key_path_list, k))>>]
            ELSE [h |-> [st.h EXCEPT ![dv[2]] = SetItem(@, k, key_path[2])], err |-> st.err]
       ELSE IF ~IsDict(dv) THEN [h |-> st.h, err |-> <<"TypeError", dv>>]
            ELSE IF HasKey(st.h[dv[2]], k)
            THEN replace_step(st, GetItem(st.h[dv[2]], k),
                              <<<<key_path[1][1], Tail(key_path[1][2])>>, key_path[2]>>,
                              Append(key_path_list, k))
            ELSE st

recursive_replace(h, dv, key_path, in_place) ==
    LET c == IF in_place THEN [h |-> h, v |-> dv] ELSE deepcopy(h, dv)
        r == replace_step([h |-> c.h, err |-> <<"none">>], c.v, key_path, <<>>)
    IN [h |-> r.h,
        ret |-> IF in_place \/ r.err[1] # "none" THEN <<"None">> ELSE <<"tree", c.v>>,
        w |-> <<>>, err |-> r.err]

\* --------------------------------------------------------- recursive_remove
RECURSIVE remove_step(_, _, _, _)
\* variant: the last key is deleted whatever its value
remove_step_nocheck(st, dv, key_path, key_path_list) ==
    IF ~IsDict(dv) THEN st
    ELSE LET k == key_path[1][2][1]
             b == st.h[dv[2]]
         IN IF Len(key_path[1][2]) = 1
            THEN IF ~HasKey(b, k)
                 THEN [h |-> st.h, err |-> <<"KeyError", PyList(Append(key_path_list, k))>>]
                 ELSE [h |-> [st.h EXCEPT ![dv[2]] = DelItem(@, k)], err |-> st.err]
            ELSE IF HasKey(b, k)
                 THEN remove_step(st, GetItem(b, k),
                                  <<<<key_path[1][1], Tail(key_path[1][2])>>, key_path[2]>>,
                                  Append(key_path_list, k))
                 ELSE st

remove_step(st, dv, key_path, key_path_list) ==
    IF ~IsDict(dv) THEN st
    ELSE LET k == key_path[1][2][1]
             b == st.h[dv[2]]
         IN IF Len(key_path[1][2]) = 1
            THEN IF ~HasKey(b, k)
                 THEN [h |-> st.h, err |-> <<"KeyError", PyList(Append(key_path_list, k))>>]
                 ELSE IF ~PyEq(st.h, GetItem(b, k), key_path[2])
                 THEN [h |-> st.h,
                       err |-> <<"ValueError", PyList(Append(key_path_list, k)),
                                 key_path[2], GetItem(b, k)>>]
                 ELSE [h |-> [st.h EXCEPT ![dv[2]] = DelItem(@, k)], err |-> st.err]
            ELSE IF HasKey(b, k)
                 THEN remove_step(st, GetItem(b, k),
                                  <<<<key_path[1][1], Tail(key_path[1][2])>>, key_path[2]>>,
                                  Append(key_path_list, k))
                 ELSE st

recursive_remove(h, dv, key_path, in_place) ==
    LET c == IF in_place THEN [h |-> h, v |-> dv] ELSE deepcopy(h, dv)
        r == remove_step([h |-> c.h, err |-> <<"none">>], c.v, key_path, <<>>)
    IN [h |-> r.h,
        ret |-> IF in_place \/ r.err[1] # "none" THEN <<"None">> ELSE <<"tree", c.v>>,
        w |-> <<>>, err |-> r.err]

\* ------------------------------------------------------------ recursive_pop
\* keys is the set of the keys to drop; the result is [h, v], v the value
\* returned: a new dictionary for a dictionary, the object itself for a leaf.
\* in_place is accepted and never read.
RECURSIVE recursive_pop(_, _, _, _)
\* variant: the keys are dropped from the outer dictionary only
recursive_pop_toplevel(h, dv, keys, in_place) ==
    IF ~IsDict(dv) THEN [h |-> h, v |-> dv]
    ELSE LET b == h[dv[2]]
         IN [h |-> Append(h, SelectSeq(b, LAMBDA it : it[1] \notin keys)),
             v |-> Ref(Len(h) + 1)]

recursive_pop(h, dv, keys, in_place) ==
    IF ~IsDict(dv) THEN [h |-> h, v |-> dv]
    ELSE LET a == Len(h) + 1
             items == h[dv[2]]
             RECURSIVE Loop(_, _)
             Loop(hh, i) ==
                 IF i > Len(items) THEN hh
                 ELSE IF items[i][1] \in keys THEN Loop(hh, i + 1)
                 ELSE LET r == recursive_pop(hh, items[i][2], keys, FALSE)
                      IN Loop([r.h EXCEPT ![a] = Append(@, <<items[i][1], r.v>>)], i + 1)
         IN [h |-> Loop(Append(h, <<>>), 1), v |-> Ref(a)]

\* ---------------------------------------------------------- recursive_build
DupWarning(key_path, value) == <<"dup_warning", key_path, value>>

\* the insertions of a list of <<key path, value>> into the dictionary dv
RECURSIVE add_all(_, _, _, _)
add_all(st, dv, key_paths, i) ==
    IF i > Len(key_paths) THEN st
    ELSE LET r == recursive_add(st.h, dv, key_paths[i], TRUE)
         IN add_all([h |-> r.h, w |-> st.w \o r.w], dv, key_paths, i + 1)

\* key_paths is a sequence of <<key path, value>>; unique_key_paths is a dict
\* keyed by the key paths, so each of them is hashed
\* variant: a later pair replaces the value kept for its key path
recursive_build_lastwins(h, key_paths) ==
    LET final_d == Ref(Len(h) + 1)
        h0 == Append(h, <<>>)
        RECURSIVE Unique(_, _)
        Unique(u, i) ==
            IF i > Len(key_paths) THEN u
            ELSE IF ~Hashable(key_paths[i][1])
            THEN [kps |-> u.kps, w |-> u.w, err |-> <<"TypeError", key_paths[i][1]>>]
            ELSE IF \A j \in 1..Len(u.kps) : u.kps[j][1] # key_paths[i][1]
            THEN Unique([kps |-> Append(u.kps, key_paths[i]), w |-> u.w, err |-> u.err], i + 1)
            ELSE LET j == CHOOSE j \in 1..Len(u.kps) : u.kps[j][1] = key_paths[i][1]
                 IN Unique([kps |-> [u.kps EXCEPT ![j] = key_paths[i]],
                            w |-> Append(u.w, DupWarning(key_paths[i][1], key_paths[i][2])),
                            err |-> u.err], i + 1)
        u == Unique([kps |-> <<>>, w |-> <<>>, err |-> <<"none">>], 1)
    IN IF u.err[1] # "none"
       THEN [h |-> h0, ret |-> <<"None">>, w |-> u.w, err |-> u.err]
       ELSE LET r == add_all([h |-> h0, w |-> u.w], final_d, u.kps, 1)
            IN [h |-> r.h, ret |-> <<"tree", final_d>>, w |-> r.w, err |-> <<"none">>]

recursive_build(h, key_paths) ==
    LET final_d == Ref(Len(h) + 1)
        h0 == Append(h, <<>>)
        RECURSIVE Unique(_, _)
        Unique(u, i) ==
            IF i > Len(key_paths) THEN u
            ELSE IF ~Hashable(key_paths[i][1])
            THEN [kps |-> u.kps, w |-> u.w, err |-> <<"TypeError", key_paths[i][1]>>]
            ELSE IF \A j \in 1..Len(u.kps) : u.kps[j][1] # key_paths[i][1]
            THEN Unique([kps |-> Append(u.kps, key_paths[i]), w |-> u.w, err |-> u.err], i + 1)
            ELSE LET j == CHOOSE j \in 1..Len(u.kps) : u.kps[j][1] = key_paths[i][1]
                 IN Unique([kps |-> u.kps,
                            w |-> Append(u.w, DupWarning(key_paths[i][1], u.kps[j][2])),
                            err |-> u.err], i + 1)
        u == Unique([kps |-> <<>>, w |-> <<>>, err |-> <<"none">>], 1)
    IN IF u.err[1] # "none"
       THEN [h |-> h0, ret |-> <<"None">>, w |-> u.w, err |-> u.err]
       ELSE LET r == add_all([h |-> h0, w |-> u.w], final_d, u.kps, 1)
            IN [h |-> r.h, ret |-> <<"tree", final_d>>, w |-> r.w, err |-> <<"none">>]

\* ---------------------------------------------------- recursive_merge_dicts
\* the chained generators of all the dictionaries
RECURSIVE chain_key_paths(_, _, _)
chain_key_paths(h, dicts, i) ==
    IF i > Len(dicts) THEN <<>>
    ELSE recursive_iter_key_paths(h, dicts[i]) \o chain_key_paths(h, dicts, i + 1)

\* the first pair of every key path, in order
RECURSIVE unique_key_paths(_, _, _)
\* variant: a later pair replaces the pair already kept for its key path
unique_key_paths_lastwins(kpv, new, i) ==
    IF i > Len(kpv) THEN new
    ELSE unique_key_paths(kpv,
                          IF \A j \in 1..Len(new) : new[j][1] # kpv[i][1]
                          THEN Append(new, kpv[i])
                          ELSE [j \in 1..Len(new) |->
                                   IF new[j][1] = kpv[i][1] THEN kpv[i] ELSE new[j]],
                          i + 1)

unique_key_paths(kpv, new, i) ==
    IF i > Len(kpv) THEN new
    ELSE unique_key_paths(kpv,
                          IF \A j \in 1..Len(new) : new[j][1] # kpv[i][1]
                          THEN Append(new, kpv[i]) ELSE new,
                          i + 1)

recursive_merge_dicts(h, dicts) ==
    LET merged_d == Ref(Len(h) + 1)
        h0 == Append(h, <<>>)
        new_key_paths_and_values == unique_key_paths(chain_key_paths(h, dicts, 1), <<>>, 1)
        r == add_all([h |-> h0, w |-> <<>>], merged_d, new_key_paths_and_values, 1)
        \* dict(merged_d): a new dictionary with the items of merged_d
        out == Ref(Len(r.h) + 1)
    IN [h |-> Append(r.h, r.h[merged_d[2]]), ret |-> <<"tree", out>>,
        w |-> r.w, err |-> <<"none">>]

\* ------------------------------------------------------ caller's callables
\* The outcome of the (n+1)-th invocation of a callable on the leaf x:
\* <<"ok", result>> or <<"raise">>.
MapFuncs == {"inc", "fail_on_1", "fail_even_calls"}
FilterFuncs == {"gt1", "gt4", "fail_on_1", "none_on_2"}

FuncCall(func, x, n) ==
    CASE func = "inc" -> <<"ok", Leaf(x + 1)>>
      [] func = "fail_on_1" -> IF x = 1 THEN <<"raise", Leaf(x)>> ELSE <<"ok", Leaf(x + 1)>>
      [] func = "fail_even_calls" ->
            IF (n + 1) % 2 = 0 THEN <<"raise", Leaf(x)>> ELSE <<"ok", Leaf(x + 1)>>

PredCall(func, x, n) ==
    CASE func = "gt1" -> <<"ok", IF x > 1 THEN "True" ELSE "False">>
      [] func = "gt4" -> <<"ok", IF x > 4 THEN "True" ELSE "False">>
      [] func = "fail_on_1" -> IF x = 1 THEN <<"raise", "">> ELSE <<"ok", "False">>
      [] func = "none_on_2" -> <<"ok", IF x = 2 THEN "None" ELSE "True">>

\* keys: <<"None", {}>> when omitted, <<"keys", K>> for the collection K;
\* "keys if keys else d.keys()": an omitted or empty collection selects every key
Selected(keys, b, k) ==
    IF keys[1] = "keys" /\ keys[2] # {} THEN k \in keys[2] ELSE HasKey(b, k)

\* ------------------------------------------------------- recursive_map_dict
\* st = [h, n, log, err]: the heap, the number of invocations of func so far,
\* the values it was invoked on, the error raised
RECURSIVE map_step(_, _, _, _, _)
map_step(st, dv, func, keys, permissive) ==
    IF ~IsDict(dv) THEN st
    ELSE LET a == dv[2]
             items == st.h[a]
             RECURSIVE Loop(_, _)
             Loop(s, i) ==
                 IF i > Len(items) \/ s.err[1] # "none" THEN s
                 ELSE LET k == items[i][1]
                          v == items[i][2]
                      IN IF IsDict(v) THEN Loop(map_step(s, v, func, keys, permissive), i + 1)
                         ELSE IF ~Selected(keys, s.h[a], k) THEN Loop(s, i + 1)
                         ELSE LET new_val == FuncCall(func, v[2], s.n)
                                  s1 == [s EXCEPT !.n = @ + 1, !.log = Append(@, v)]
                              IN IF new_val[1] = "raise"
                                 THEN IF ~permissive
                                      THEN [s1 EXCEPT !.err = <<"Exception", v>>]
                                      ELSE Loop(s1, i + 1)
                                 ELSE \* d[k] = func(v): a second, unguarded invocation
                                      LET again == FuncCall(func, v[2], s1.n)
                                          s2 == [s1 EXCEPT !.n = @ + 1, !.log = Append(@, v)]
                                      IN IF again[1] = "raise"
                                         THEN [s2 EXCEPT !.err = <<"FuncError", v>>]
                                         ELSE Loop([s2 EXCEPT !.h[a] = SetItem(@, k, again[2])],
                                                   i + 1)
         IN Loop(st, 1)

recursive_map_dict(h, dv, func, keys, in_place, permissive) ==
    LET c == IF in_place THEN [h |-> h, v |-> dv] ELSE deepcopy(h, dv)
        r == map_step([h |-> c.h, n |-> 0, log |-> <<>>, err |-> <<"none">>],
                      c.v, func, keys, permissive)
    IN [h |-> r.h,
        ret |-> IF in_place \/ r.err[1] # "none" THEN <<"None">> ELSE <<"tree", c.v>>,
        w |-> <<>>, err |-> r.err, log |-> r.log]

\* ---------------------------------------------------- recursive_filter_dict
RECURSIVE filter_step(_, _, _, _, _)
\* variant: a dictionary that the deletions have emptied is deleted as well
filter_step_prune(st, dv, func, keys, permissive) ==
    IF ~IsDict(dv) THEN st
    ELSE LET a == dv[2]
             items == st.h[a]
             RECURSIVE Loop(_, _)
             Loop(s, i) ==
                 IF i > Len(items) \/ s.err[1] # "none" THEN s
                 ELSE LET k == items[i][1]
                          v == items[i][2]
                      IN IF IsDict(v)
                         THEN LET s0 == filter_step(s, v, func, keys, permissive)
                              IN Loop(IF s0.h[v[2]] = <<>> THEN [s0 EXCEPT !.h[a] = DelItem(@, k)]
                                      ELSE s0, i + 1)
                         ELSE IF ~Selected(keys, s.h[a], k) THEN Loop(s, i + 1)
                         ELSE LET return_val == PredCall(func, v[2], s.n)
                                  s1 == [s EXCEPT !.n = @ + 1, !.log = Append(@, v)]
                              IN IF return_val[1] = "raise"
                                 THEN IF ~permissive
                                      THEN [s1 EXCEPT !.err = <<"Exception", v>>]
                                      ELSE Loop(s1, i + 1)
                                 ELSE IF return_val[2] = "False"
                                 THEN Loop([s1 EXCEPT !.h[a] = DelItem(@, k)], i + 1)
                                 ELSE IF return_val[2] = "True"
                                 THEN Loop(s1, i + 1)
                                 ELSE [s1 EXCEPT !.err = <<"TypeError", v, return_val[2]>>]
         IN Loop(st, 1)

\* variant: in permissive mode a result that is not a bool is passed over
filter_step_lenient(st, dv, func, keys, permissive) ==
    IF ~IsDict(dv) THEN st
    ELSE LET a == dv[2]
             items == st.h[a]
             RECURSIVE Loop(_, _)
             Loop(s, i) ==
                 IF i > Len(items) \/ s.err[1] # "none" THEN s
                 ELSE LET k == items[i][1]
                          v == items[i][2]
                      IN IF IsDict(v) THEN Loop(filter_step(s, v, func, keys, permissive), i + 1)
                         ELSE IF ~Selected(keys, s.h[a], k) THEN Loop(s, i + 1)
                         ELSE LET return_val == PredCall(func, v[2], s.n)
                                  s1 == [s EXCEPT !.n = @ + 1, !.log = Append(@, v)]
                              IN IF return_val[1] = "raise"
                                 THEN IF ~permissive
                                      THEN [s1 EXCEPT !.err = <<"Exception", v>>]
                                      ELSE Loop(s1, i + 1)
                                 ELSE IF return_val[2] = "False"
                                 THEN Loop([s1 EXCEPT !.h[a] = DelItem(@, k)], i + 1)
                                 ELSE IF return_val[2] = "True" \/ permissive
                                 THEN Loop(s1, i + 1)
                                 ELSE [s1 EXCEPT !.err = <<"TypeError", v, return_val[2]>>]
         IN Loop(st, 1)

filter_step(st, dv, func, keys, permissive) ==
    IF ~IsDict(dv) THEN st
    ELSE LET a == dv[2]
             items == st.h[a]
             RECURSIVE Loop(_, _)
             Loop(s, i) ==
                 IF i > Len(items) \/ s.err[1] # "none" THEN s
                 ELSE LET k == items[i][1]
                          v == items[i][2]
                      IN IF IsDict(v) THEN Loop(filter_step(s, v, func, keys, permissive), i + 1)
                         ELSE IF ~Selected(keys, s.h[a], k) THEN Loop(s, i + 1)
                         ELSE LET return_val == PredCall(func, v[2], s.n)
                                  s1 == [s EXCEPT !.n = @ + 1, !.log = Append(@, v)]
                              IN IF return_val[1] = "raise"
                                 THEN IF ~permissive
                                      THEN [s1 EXCEPT !.err = <<"Exception", v>>]
                                      ELSE Loop(s1, i + 1)
                                 ELSE IF return_val[2] = "False"
                                 THEN Loop([s1 EXCEPT !.h[a] = DelItem(@, k)], i + 1)
                                 ELSE IF return_val[2] = "True"
                                 THEN Loop(s1, i + 1)
                                 ELSE [s1 EXCEPT !.err = <<"TypeError", v, return_val[2]>>]
         IN Loop(st, 1)

recursive_filter_dict(h, dv, func, keys, in_place, permissive) ==
    LET c == IF in_place THEN [h |-> h, v |-> dv] ELSE deepcopy(h, dv)
        r == filter_step([h |-> c.h, n |-> 0, log |-> <<>>, err |-> <<"none">>],
                         c.v, func, keys, permissive)
    IN [h |-> r.h,
        ret |-> IF in_place \/ r.err[1] # "none" THEN <<"None">> ELSE <<"tree", c.v>>,
        w |-> <<>>, err |-> r.err, log |-> r.log]

\* ------------------------------------------------------------------ state
\* heap0 is the heap as the caller built it, before any call; fcalls lists the
\* values the caller's callable was invoked on during the call
VARIABLES heap, heap0, d, pc, call, ret, err, warns, fcalls

vars == <<heap, heap0, d, pc, call, ret, err, warns, fcalls>>

NoCall == [op |-> "none"]
NoRet == <<"None">>
NoErr == <<"none">>

InitWith(ts) ==
    LET r == LoadAll(<<>>, <<>>, ts, 1)
    IN /\ heap = r[1]
       /\ heap0 = r[1]
       /\ d = r[2]
       /\ pc = "ready"
       /\ call = NoCall
       /\ ret = NoRet
       /\ err = NoErr
       /\ warns = <<>>
       /\ fcalls = <<>>

Init == \E t \in LitDicts(MaxEntries) \cup {DocTree, DocFilterTree} : InitWith(<<t>>)

\* ------------------------------------------------------- call arguments
DocHeap == Load(<<>>, DocTree)[1]
IsDoc == heap0 = DocHeap

KeyArgs == Keys \cup {7}
ValueArgs == Leaves \cup {7}

RECURSIVE SeqsUpTo(_, _)
SeqsUpTo(S, n) ==
    IF n = 0 THEN {<<>>}
    ELSE LET R == SeqsUpTo(S, n - 1) IN R \cup {Append(s, x) : s \in R, x \in S}

\* non-empty key paths, given as tuples
PathArgs == {PyTuple(p) : p \in SeqsUpTo(Keys, MaxPathLen) \ {<<>>}}
DocPathArgs == {PyTuple(<<6, 3, 12>>), PyTuple(<<6, 3, 7, 12>>), PyTuple(<<7>>),
                PyTuple(<<3, 6>>), PyTuple(<<3, 4>>)}
DocLeafArgs == {Leaf(13), Leaf(11), Leaf(5), Leaf(6)}

\* a value argument: a leaf, or a new dictionary of the caller, {} or {1: 1}
LeafArgs == {Leaf(n) : n \in Leaves}
NewDict == <<"{}", 0>>
OneDict == <<"{}", 1>>

\* the heap and the value once the caller has evaluated its argument
ArgHeap(h, v) ==
    IF v = NewDict THEN Append(h, <<>>)
    ELSE IF v = OneDict THEN Append(h, <<<<1, Leaf(1)>>>>)
    ELSE h
ArgValue(h, v) == IF v \in {NewDict, OneDict} THEN Ref(Len(h) + 1) ELSE v

\* the call has returned (or raised) with result r
Finish(c, r) ==
    /\ call' = c
    /\ heap' = r.h
    /\ ret' = r.ret
    /\ err' = r.err
    /\ warns' = r.w
    /\ fcalls' = (IF "log" \in DOMAIN r THEN r.log ELSE <<>>)
    /\ pc' = "returned"
    /\ UNCHANGED <<heap0, d>>

Query(h, list) == [h |-> h, ret |-> <<"list", list>>, w |-> <<>>, err |-> NoErr]

CallValuesForKey ==
    /\ pc = "ready"
    /\ \E key \in KeyArgs :
        Finish([op |-> "get_values_from_key", key |-> key],
               Query(heap, recursive_get_values_from_key(heap, d[1], key)))

CallKeyPathsForValue ==
    /\ pc = "ready"
    /\ \E value \in ValueArgs :
        Finish([op |-> "get_key_paths", value |-> value],
               Query(heap, recursive_get_key_paths(heap, d[1], value)))

CallIterKeyPaths ==
    /\ pc = "ready"
    /\ Finish([op |-> "iter_key_paths"], Query(heap, recursive_iter_key_paths(heap, d[1])))

PathValueArgs ==
    IF IsDoc THEN DocPathArgs \X DocLeafArgs
    ELSE PathArgs \X (LeafArgs \cup {NewDict, OneDict})

CallAdd ==
    /\ pc = "ready"
    /\ \E pv \in PathValueArgs, in_place \in BOOLEAN :
        LET h == ArgHeap(heap, pv[2])
            value == ArgValue(heap, pv[2])
        IN Finish([op |-> "add", path |-> pv[1], value |-> value, in_place |-> in_place],
                  recursive_add(h, d[1], <<pv[1], value>>, in_place))

CallReplace ==
    /\ pc = "ready"
    /\ \E pv \in PathValueArgs, in_place \in BOOLEAN :
        LET h == ArgHeap(heap, pv[2])
            value == ArgValue(heap, pv[2])
        IN Finish([op |-> "replace", path |-> pv[1], value |-> value, in_place |-> in_place],
                  recursive_replace(h, d[1], <<pv[1], value>>, in_place))

CallRemove ==
    /\ pc = "ready"
    /\ \E pv \in PathValueArgs, in_place \in BOOLEAN :
        LET h == ArgHeap(heap, pv[2])
            value == ArgValue(heap, pv[2])
        IN Finish([op |-> "remove", path |-> pv[1], value |-> value, in_place |-> in_place],
                  recursive_remove(h, d[1], <<pv[1], value>>, in_place))

KeysArgs == {<<"None", {}>>, <<"keys", {}>>} \cup {<<"keys", {k}>> : k \in Keys}

CallMap ==
    /\ pc = "ready"
    /\ \E func \in MapFuncs, keys \in KeysArgs, in_place \in BOOLEAN, permissive \in BOOLEAN :
        Finish([op |-> "map", func |-> func, keys |-> keys, in_place |-> in_place,
                permissive |-> permissive],
               recursive_map_dict(heap, d[1], func, keys, in_place, permissive))

\* lambda x: x > 4 is the predicate of the docstring example
IsDocFilter == heap0 = Load(<<>>, DocFilterTree)[1]
FilterFuncArgs == IF IsDocFilter THEN {"gt4"} ELSE FilterFuncs \ {"gt4"}

CallFilter ==
    /\ pc = "ready"
    /\ \E func \in FilterFuncArgs, keys \in KeysArgs, in_place \in BOOLEAN, permissive \in BOOLEAN :
        Finish([op |-> "filter", func |-> func, keys |-> keys, in_place |-> in_place,
                permissive |-> permissive],
               recursive_filter_dict(heap, d[1], func, keys, in_place, permissive))

\* the keys to drop: any of the generated keys, or the docstring's (3, 7)
PopKeysArgs == IF IsDoc THEN {{3, 7}} ELSE SUBSET Keys

CallPop ==
    /\ pc = "ready"
    /\ \E keys \in PopKeysArgs, in_place \in BOOLEAN :
        LET r == recursive_pop(heap, d[1], keys, in_place)
        IN Finish([op |-> "pop", keys |-> keys, in_place |-> in_place],
                  [h |-> r.h, ret |-> <<"tree", r.v>>, w |-> <<>>, err |-> NoErr])

\* recursive_build(recursive_iter_key_paths(d))
CallBuildIter ==
    /\ pc = "ready"
    /\ Finish([op |-> "build_iter"],
              recursive_build(heap, recursive_iter_key_paths(heap, d[1])))

CallMerge ==
    /\ pc = "ready"
    /\ Finish([op |-> "merge"], recursive_merge_dicts(heap, d))

\* a later in-place insertion into a dictionary of the returned tree
MarkLeaf == Leaf(0)
MutateReturned ==
    /\ pc = "returned"
    /\ ret[1] = "tree"
    /\ \E p \in NodePaths(heap, ret[2]), k \in Keys :
        /\ IsDict(At(heap, ret[2], p))
        /\ heap' = recursive_add(heap, ret[2], <<PyTuple(Append(p, k)), MarkLeaf>>, TRUE).h
    /\ pc' = "mutated"
    /\ UNCHANGED <<heap0, d, call, ret, err, warns, fcalls>>

Next ==
    \/ CallValuesForKey
    \/ CallKeyPathsForValue
    \/ CallIterKeyPaths
    \/ CallBuildIter
    \/ CallAdd
    \/ CallReplace
    \/ CallRemove
    \/ CallPop
    \/ CallMap
    \/ CallFilter
    \/ MutateReturned

Spec == Init /\ [][Next]_vars

\* -------------------------------------------- merging several dictionaries
\* sequences of 1..n dictionaries with at most m entries in all
RECURSIVE LitSeqs(_, _)
LitSeqs(n, m) ==
    IF n = 0 THEN {<<>>}
    ELSE {<<>>} \cup UNION { {<<t>> \o rest : rest \in LitSeqs(n - 1, m - LitSize(t))} :
                             t \in LitDicts(m) }

DocTree2 ==
    <<"D", << <<14, <<"D", << <<15, Leaf(16)>> >> >> >>,
              <<3, <<"D", << <<17, Leaf(18)>> >> >> >> >> >>
DocTree3 ==
    <<"D", << <<6, <<"D", << <<3, <<"D", << <<9, Leaf(10)>> >> >> >> >> >> >> >> >>
DocSmall1 == <<"D", << <<1, Leaf(2)>>, <<3, <<"D", << <<4, Leaf(5)>> >> >> >> >> >>
DocSmall2 == <<"D", << <<3, <<"D", << <<17, Leaf(18)>> >> >> >> >> >>

InitMerge ==
    \E ts \in (LitSeqs(MaxTrees, MaxMergeEntries) \ {<<>>})
               \cup {<<DocTree, DocTree2, DocTree3>>, <<DocSmall1, DocSmall2>>} :
        InitWith(ts)

NextMerge ==
    \/ CallMerge
    \/ MutateReturned

SpecMerge == InitMerge /\ [][NextMerge]_vars

\* ------------------------------------- building from <<key path, value>>
\* the pairs of the second docstring example
DocEntries ==
    << <<PyTuple(<<1, 2>>), Leaf(3)>>, <<PyTuple(<<4>>), Leaf(5)>>, <<PyTuple(<<4>>), Leaf(6)>> >>

\* the i-th pair holds the leaf i, so that equal key paths come with different
\* values
CallBuild ==
    /\ pc = "ready"
    /\ \E key_paths \in
            {[i \in 1..Len(ps) |-> <<PyTuple(ps[i]), Leaf(i)>>] :
                ps \in SeqsUpTo(SeqsUpTo(Keys, MaxBuildPathLen) \ {<<>>}, MaxBuildEntries)}
            \cup {DocEntries} :
        Finish([op |-> "build", key_paths |-> key_paths], recursive_build(heap, key_paths))

InitBuild == InitWith(<<>>)

NextBuild ==
    \/ CallBuild
    \/ MutateReturned

SpecBuild == InitBuild /\ [][NextBuild]_vars

\* ================================================================ claims
Returned(op) == pc = "returned" /\ call.op = op
T0 == d[1]

\* p comes before q in the depth-first pre-order of the tree v
PreBefore(h, v, p, q) ==
    /\ p # q
    /\ \/ IsProperPrefix(p, q)
       \/ \E i \in 1..Len(p) :
            /\ i <= Len(q)
            /\ Prefix(p, i - 1) = Prefix(q, i - 1)
            /\ p[i] # q[i]
            /\ LET b == h[At(h, v, Prefix(p, i - 1))[2]]
               IN PosOf(b, p[i]) < PosOf(b, q[i])

\* paths of the dictionaries of v that hold key k
HoldersOf(h, v, k) ==
    {p \in NodePaths(h, v) : IsDict(At(h, v, p)) /\ HasKey(h[At(h, v, p)[2]], k)}

\* C3: valuesForKey(T, k) lists, for each dictionary of T that has k as a key
\* (the root included), that dictionary's value for k, once, in depth-first
\* pre-order; it is empty when no dictionary has k.
C3_ValuesForKey ==
    Returned("get_values_from_key") =>
        LET M == HoldersOf(heap0, T0, call.key)
            r == ret[2]
        IN /\ Len(r) = Cardinality(M)
           /\ \A p \in M :
                r[1 + Cardinality({q \in M : PreBefore(heap0, T0, q, p)})]
                    = GetItem(heap0[At(heap0, T0, p)[2]], call.key)

C3_Witness ==
    /\ Returned("get_values_from_key")
    /\ Len(ret[2]) >= 2
    /\ IsDict(ret[2][1])
    /\ \E p \in NodePaths(heap0, T0) :
         IsDict(At(heap0, T0, p)) /\ p \notin HoldersOf(heap0, T0, call.key)

\* C4 (as stated): on the docstring dictionary, valuesForKey(T, 7) = [10, 11].
C4_Original ==
    (Returned("get_values_from_key") /\ IsDoc /\ call.key = 7) =>
        ret[2] = <<Leaf(10), Leaf(11)>>

\* C4 (amended): on the docstring dictionary T = {1:2, 3:{4:5},
\* 6:{3:{7:8}, 7:10}, 7:11}, valuesForKey(T, 7) = [11, 10, 8]: the root's own
\* match first, then the matches of the dictionaries below it, {7:8} included.
C4_DocExample ==
    (Returned("get_values_from_key") /\ IsDoc /\ call.key = 7) =>
        ret[2] = <<Leaf(11), Leaf(10), Leaf(8)>>

C4_Witness == Returned("get_values_from_key") /\ IsDoc /\ call.key = 7 /\ Len(ret[2]) = 3

\* paths at which the integer n is matched: dictionaries holding the key n,
\* and items whose value is the leaf n
MatchesOf(h, v, n) ==
    {p \in NodePaths(h, v) :
        \/ IsDict(At(h, v, p)) /\ HasKey(h[At(h, v, p)[2]], n)
        \/ At(h, v, p) = Leaf(n)}

\* C5: keyPathsForValue(T, v), v not a dictionary, holds (P, v) for each
\* dictionary at path P with a key equal to v, and (P + [k], v) for each item
\* k of a dictionary at P whose value equals v; no other pair, no pair twice.
\* On the docstring dictionary and v = 7 it is [([6,3],7), ([6],7), ([],7)].
C5_KeyPathsForValue ==
    Returned("get_key_paths") =>
        LET r == ret[2]
            S == {<<PyList(p), call.value>> : p \in MatchesOf(heap0, T0, call.value)}
        IN /\ Range(r) = S
           /\ Len(r) = Cardinality(S)
           /\ (IsDoc /\ call.value = 7) =>
                r = << <<PyList(<<6, 3>>), 7>>, <<PyList(<<6>>), 7>>, <<PyList(<<>>), 7>> >>

C5_Witness ==
    /\ Returned("get_key_paths")
    /\ \E i, j \in 1..Len(ret[2]) :
         /\ IsDict(At(heap0, T0, ret[2][i][1][2]))
         /\ At(heap0, T0, ret[2][j][1][2]) = Leaf(call.value)

\* C6: iterKeyPaths(T) yields one (path, value) pair for every item of T at
\* every depth and nothing else, value being the node at path; the items below
\* a dictionary-valued item come before that item, siblings come in the
\* dictionary's iteration order; the tree is left as it was, so that iterating
\* it again yields the same sequence.
C6_IterKeyPaths ==
    Returned("iter_key_paths") =>
        LET r == ret[2]
            P(i) == r[i][1][2]
        IN /\ {P(i) : i \in 1..Len(r)} = NodePaths(heap0, T0) \ {<<>>}
           /\ Len(r) = Cardinality(NodePaths(heap0, T0) \ {<<>>})
           /\ \A i \in 1..Len(r) : r[i][2] = At(heap0, T0, P(i))
           /\ \A i, j \in 1..Len(r) :
                /\ IsProperPrefix(P(j), P(i)) => i < j
                /\ ( /\ Len(P(i)) = Len(P(j))
                     /\ Prefix(P(i), Len(P(i)) - 1) = Prefix(P(j), Len(P(j)) - 1)
                     /\ LET b == heap0[At(heap0, T0, Prefix(P(i), Len(P(i)) - 1))[2]]
                        IN PosOf(b, P(i)[Len(P(i))]) < PosOf(b, P(j)[Len(P(j))]) )
                   => i < j
           /\ heap = heap0
           /\ recursive_iter_key_paths(heap, T0) = r

C6_Witness ==
    /\ Returned("iter_key_paths")
    /\ Len(ret[2]) >= 3
    /\ \E i \in 1..Len(ret[2]) : IsDict(ret[2][i][2]) /\ Len(heap0[ret[2][i][2][2]]) >= 1
    /\ Len(heap0[T0[2]]) >= 2

\* the tree of a literal, as a Python value
LitNorm(t) == LET r == Load(<<>>, t) IN Norm(r[1], r[2])

\* C7: build(iterKeyPaths(T)) completes without error and returns a tree
\* structurally equal to T.
C7_RoundTrip ==
    Returned("build_iter") =>
        /\ err = NoErr
        /\ ret[1] = "tree"
        /\ Norm(heap, ret[2]) = Norm(heap0, T0)

\* ---------------------------------------------------------------- merge
Inputs == 1..Len(d)
Holds(i, p) == p \in NodePaths(heap0, d[i])
In0(i, p) == At(heap0, d[i], p)
InputPaths == UNION {NodePaths(heap0, d[i]) : i \in Inputs}
FirstWith(p) == CHOOSE i \in Inputs : Holds(i, p) /\ \A j \in Inputs : Holds(j, p) => i <= j
LeafAbove(i, p) == \E n \in 0..(Len(p) - 1) : Holds(i, Prefix(p, n)) /\ ~IsDict(In0(i, Prefix(p, n)))

\* C2: mergeTrees leaves every input tree structurally equal to its value
\* before the call, and no dictionary of the result is shared with an input.
C2_MergeFrame ==
    Returned("merge") =>
        /\ \A i \in Inputs : Norm(heap, d[i]) = Norm(heap0, d[i])
        /\ \A i \in Inputs : Reach(heap, ret[2]) \cap Reach(heap, d[i]) = {}

\* C8: mergeTrees([T]) is structurally equal to T.
C8_MergeSingle ==
    (Returned("merge") /\ Len(d) = 1) =>
        /\ err = NoErr
        /\ ret[1] = "tree"
        /\ Norm(heap, ret[2]) = Norm(heap0, T0)

C8_Witness ==
    /\ Returned("merge")
    /\ Len(d) = 1
    /\ \E p \in NodePaths(heap0, T0) : Len(p) >= 2
    /\ \E p \in NodePaths(heap0, T0) : IsDict(In0(1, p)) /\ p # <<>> /\ Len(heap0[In0(1, p)[2]]) = 0

\* C9 (as stated): for every path P present in an input, if the first input
\* holding P has a leaf there, the merged tree has that leaf at P.
C9_Original ==
    Returned("merge") =>
        \A p \in InputPaths \ {<<>>} :
            ~IsDict(In0(FirstWith(p), p)) =>
                /\ p \in NodePaths(heap, ret[2])
                /\ At(heap, ret[2], p) = In0(FirstWith(p), p)

\* C9 (amended): for every path P present in an input, if the first input
\* holding P has a leaf there and no earlier input has a leaf at a proper
\* prefix of P, the merged tree has exactly that leaf at P, whatever later
\* inputs hold at P or below it.
C9_FirstLeafWins ==
    Returned("merge") =>
        \A p \in InputPaths \ {<<>>} :
            ( /\ ~IsDict(In0(FirstWith(p), p))
              /\ \A j \in Inputs : j < FirstWith(p) => ~LeafAbove(j, p) )
            => /\ p \in NodePaths(heap, ret[2])
               /\ At(heap, ret[2], p) = In0(FirstWith(p), p)

\* a later input holds something else at, or below, a leaf of an earlier input
C9_Witness ==
    /\ Returned("merge")
    /\ \E p \in InputPaths \ {<<>>} :
         /\ ~IsDict(In0(FirstWith(p), p))
         /\ \A j \in Inputs : j < FirstWith(p) => ~LeafAbove(j, p)
         /\ \E j \in Inputs :
              /\ j > FirstWith(p)
              /\ Holds(j, p)
              /\ In0(j, p) # In0(FirstWith(p), p)
         /\ \E j \in Inputs : j > FirstWith(p) /\ \E q \in NodePaths(heap0, d[j]) : IsProperPrefix(p, q)

BranchHolders(p) == {i \in Inputs : Holds(i, p) /\ IsDict(In0(i, p))}
FirstOf(S) == CHOOSE i \in S : \A j \in S : i <= j

\* C10: for every path P at which two or more inputs hold a dictionary, no
\* input before them holding a leaf at P or at a prefix of P, the merged tree
\* holds a dictionary at P whose keys are the union of the keys of those
\* dictionaries; mergeTrees([{1:2,3:{4:5}}, {3:{17:18}}]) = {1:2, 3:{4:5,17:18}}.
C10_DeepMerge ==
    Returned("merge") =>
        /\ \A p \in InputPaths :
            ( /\ Cardinality(BranchHolders(p)) >= 2
              /\ \A j \in Inputs : j < FirstOf(BranchHolders(p)) =>
                    ~LeafAbove(j, p) /\ ~(Holds(j, p) /\ ~IsDict(In0(j, p))) )
            => /\ p \in NodePaths(heap, ret[2])
               /\ IsDict(At(heap, ret[2], p))
               /\ KeysOf(heap[At(heap, ret[2], p)[2]])
                    = UNION {KeysOf(heap0[In0(i, p)[2]]) : i \in BranchHolders(p)}
        /\ heap0 = LoadAll(<<>>, <<>>, <<DocSmall1, DocSmall2>>, 1)[1] =>
             Norm(heap, ret[2])
               = LitNorm(<<"D", << <<1, Leaf(2)>>,
                                   <<3, <<"D", << <<4, Leaf(5)>>, <<17, Leaf(18)>> >> >> >> >> >>)

\* two inputs hold dictionaries with different keys at a path below the root
C10_Witness ==
    /\ Returned("merge")
    /\ \E p \in InputPaths \ {<<>>} :
         /\ Cardinality(BranchHolders(p)) >= 2
         /\ \A j \in Inputs : j < FirstOf(BranchHolders(p)) =>
               ~LeafAbove(j, p) /\ ~(Holds(j, p) /\ ~IsDict(In0(j, p)))
         /\ \E i, j \in BranchHolders(p) :
              /\ i < j
              /\ KeysOf(heap0[In0(j, p)[2]]) \ KeysOf(heap0[In0(i, p)[2]]) # {}
              /\ KeysOf(heap0[In0(i, p)[2]]) \ KeysOf(heap0[In0(j, p)[2]]) # {}

\* ------------------------------------------------------ in_place = False
CopyOps == {"add", "replace", "remove", "map", "filter"}
CopyCall == call.op \in CopyOps /\ ~call.in_place

Result == IF call.in_place THEN T0 ELSE ret[2]
Path == call.path[2]

\* some proper prefix of p (the root included) is a leaf of v
LeafOnWay(h, v, p) ==
    \E n \in 0..(Len(p) - 1) :
        Prefix(p, n) \in NodePaths(h, v) /\ ~IsDict(At(h, v, Prefix(p, n)))

\* q is neither a prefix nor an extension of p
Unrelated(q, p) == ~IsPrefix(q, p) /\ ~IsPrefix(p, q)

\* every entry of T off the path p is in the resulting tree as it was
OthersUnchanged(p) ==
    \A q \in NodePaths(heap0, T0) :
        Unrelated(q, p) =>
            /\ q \in NodePaths(heap, Result)
            /\ Norm(heap, At(heap, Result, q)) = Norm(heap0, At(heap0, T0, q))

\* C11: when no proper prefix of p is a leaf of T, add(T, (p, v)) leaves v at
\* p, whatever leaf or dictionary was there, every proper prefix of p is a
\* dictionary (a new empty one where the key was missing), and every entry
\* whose path is neither a prefix nor an extension of p is unchanged; adding
\* ((6,3,12), 13) to the docstring dictionary gives
\* {1:2, 3:{4:5}, 6:{3:{7:8, 12:13}, 7:10}, 7:11}.
C11_AddInserts ==
    (Returned("add") /\ ~LeafOnWay(heap0, T0, Path)) =>
        /\ err = NoErr
        /\ warns = <<>>
        /\ Path \in NodePaths(heap, Result)
        /\ At(heap, Result, Path) = call.value
        /\ \A n \in 0..(Len(Path) - 1) : IsDict(At(heap, Result, Prefix(Path, n)))
        /\ \A n \in 1..(Len(Path) - 1) :
             Prefix(Path, n) \notin NodePaths(heap0, T0) =>
                KeysOf(heap[At(heap, Result, Prefix(Path, n))[2]]) = {Path[n + 1]}
        /\ OthersUnchanged(Path)
        /\ (IsDoc /\ Path = <<6, 3, 12>> /\ call.value = Leaf(13)) =>
             Norm(heap, Result)
               = LitNorm(<<"D", << <<1, Leaf(2)>>,
                                   <<3, <<"D", << <<4, Leaf(5)>> >> >> >>,
                                   <<6, <<"D", << <<3, <<"D", << <<7, Leaf(8)>>,
                                                                 <<12, Leaf(13)>> >> >> >>,
                                                  <<7, Leaf(10)>> >> >> >>,
                                   <<7, Leaf(11)>> >> >>)

\* two missing dictionaries are created next to an entry that stays
C11_Witness ==
    /\ Returned("add")
    /\ ~LeafOnWay(heap0, T0, Path)
    /\ Len(Path) = 3
    /\ Prefix(Path, 1) \notin NodePaths(heap0, T0)
    /\ \E q \in NodePaths(heap0, T0) : Len(q) = 2 /\ Unrelated(q, Path)

\* C12: when some proper prefix of p is a leaf of T, add(T, (p, v)) raises no
\* error, logs exactly one warning, which names the whole path p and the value
\* v, and the resulting tree (returned, or the caller's when in place) is
\* structurally equal to T: no key is inserted anywhere.
C12_AddBlocked ==
    (Returned("add") /\ LeafOnWay(heap0, T0, Path)) =>
        /\ err = NoErr
        /\ warns = <<AddWarning(call.value, call.path)>>
        /\ Norm(heap, Result) = Norm(heap0, T0)
        /\ NodePaths(heap, Result) = NodePaths(heap0, T0)
        /\ ~call.in_place => ret[1] = "tree"

\* the leaf is met after a dictionary, with keys of the path still to go
C12_Witness ==
    /\ Returned("add")
    /\ \E n \in 1..(Len(Path) - 2) :
         Prefix(Path, n + 1) \in NodePaths(heap0, T0)
         /\ ~IsDict(At(heap0, T0, Prefix(Path, n + 1)))
    /\ warns # <<>>

\* --------------------------------------------------------------- replace
\* some key of p before the last is missing where the walk looks for it
AbsentOnWay(p) == \E n \in 1..(Len(p) - 1) : Prefix(p, n) \notin NodePaths(heap0, T0)
\* every key of p before the last leads to a dictionary
BranchesOnWay(p) ==
    \A n \in 1..(Len(p) - 1) :
        Prefix(p, n) \in NodePaths(heap0, T0) /\ IsDict(At(heap0, T0, Prefix(p, n)))

\* C13: replace(T, (p, v)) has exactly one of three outcomes: a key of p before
\* the last is absent along the walk, and the tree is unchanged with no error;
\* all keys before the last lead to dictionaries and the last is absent, and it
\* raises KeyError with the whole path p; otherwise the value at p is
\* overwritten with v and every other entry is unchanged.
C13_ReplaceOutcomes ==
    Returned("replace") =>
        IF AbsentOnWay(Path)
        THEN /\ err = NoErr
             /\ Norm(heap, Result) = Norm(heap0, T0)
        ELSE IF BranchesOnWay(Path) /\ Path \notin NodePaths(heap0, T0)
        THEN /\ err = <<"KeyError", PyList(Path)>>
             /\ Norm(heap, T0) = Norm(heap0, T0)
        ELSE /\ err = NoErr
             /\ Path \in NodePaths(heap, Result)
             /\ At(heap, Result, Path) = call.value
             /\ NodePaths(heap, Result) \ {q \in NodePaths(heap, Result) : IsProperPrefix(Path, q)}
                  = NodePaths(heap0, T0) \ {q \in NodePaths(heap0, T0) : IsProperPrefix(Path, q)}
             /\ \A q \in NodePaths(heap0, T0) :
                  ~IsPrefix(Path, q) /\ ~IsDict(At(heap0, T0, q)) =>
                      At(heap, Result, q) = At(heap0, T0, q)

\* ---------------------------------------------------------------- remove
\* C14: when every key of p before the last leads to a dictionary,
\* remove(T, (p, v)) raises KeyError with the path if the last key is absent,
\* raises ValueError with the expected and the actual value if the value at p
\* differs from v, and otherwise deletes the last key with all that is below
\* it, every other entry unchanged; the key is deleted only when the stored
\* value equals v, and the caller's tree is untouched by a failed call.
C14_RemoveOutcomes ==
    (Returned("remove") /\ BranchesOnWay(Path)) =>
        IF Path \notin NodePaths(heap0, T0)
        THEN /\ err = <<"KeyError", PyList(Path)>>
             /\ Norm(heap, T0) = Norm(heap0, T0)
        ELSE IF Norm(heap0, At(heap0, T0, Path)) # Norm(heap, call.value)
        THEN /\ Len(err) = 4
             /\ err[1] = "ValueError"
             /\ err[2] = PyList(Path)
             /\ err[3] = call.value
             /\ Norm(heap, err[4]) = Norm(heap0, At(heap0, T0, Path))
             /\ Norm(heap, T0) = Norm(heap0, T0)
        ELSE /\ err = NoErr
             /\ NodePaths(heap, Result)
                  = NodePaths(heap0, T0) \ {q \in NodePaths(heap0, T0) : IsPrefix(Path, q)}
             /\ \A q \in NodePaths(heap, Result) :
                  ~IsDict(At(heap0, T0, q)) => At(heap, Result, q) = At(heap0, T0, q)

\* a key that holds a non-empty dictionary equal to v is deleted, and another
\* entry of the tree stays
C14_Witness ==
    /\ Returned("remove")
    /\ BranchesOnWay(Path)
    /\ err = NoErr
    /\ Append(Path, 1) \in NodePaths(heap0, T0)
    /\ Path \notin NodePaths(heap, Result)
    /\ \E q \in NodePaths(heap, Result) : Unrelated(q, Path)

\* ------------------------------------------------------------------- pop
\* paths none of whose keys is in K
Avoiding(P, K) == {q \in P : \A i \in 1..Len(q) : q[i] \notin K}

RECURSIVE FirstOccurrences(_, _)
FirstOccurrences(E, i) ==
    IF i > Len(E) THEN <<>>
    ELSE (IF \A j \in 1..(i - 1) : E[j][1] # E[i][1] THEN <<E[i]>> ELSE <<>>)
         \o FirstOccurrences(E, i + 1)

FirstIndex(E, path) == CHOOSE i \in 1..Len(E) : E[i][1] = path /\ \A j \in 1..(i - 1) : E[j][1] # path

\* one warning for every pair whose key path has occurred before, naming the
\* key path and the value of its first occurrence
RECURSIVE LaterWarnings(_, _)
LaterWarnings(E, i) ==
    IF i > Len(E) THEN <<>>
    ELSE (IF \E j \in 1..(i - 1) : E[j][1] = E[i][1]
          THEN <<DupWarning(E[i][1], E[FirstIndex(E, E[i][1])][2])>> ELSE <<>>)
         \o LaterWarnings(E, i + 1)

LeafPaths0 == {q \in NodePaths(heap0, T0) : ~IsDict(At(heap0, T0, q))}
Last(q) == q[Len(q)]

\* C17: with a function that never fails and an explicitly given collection
\* of keys K, the empty one included, mapLeaves replaces by f(v) exactly the
\* leaves v whose own key is in K and leaves every other leaf as it was; a
\* dictionary is never passed to f, even under a key of K, but is walked; the
\* set of key paths does not change.
C17_MapSelectedKeys ==
    (Returned("map") /\ call.func = "inc" /\ call.keys[1] = "keys") =>
        /\ err = NoErr
        /\ \A i \in 1..Len(fcalls) : ~IsDict(fcalls[i])
        /\ NodePaths(heap, Result) = NodePaths(heap0, T0)
        /\ \A q \in NodePaths(heap0, T0) :
             IsDict(At(heap, Result, q)) = IsDict(At(heap0, T0, q))
        /\ \A q \in LeafPaths0 :
             At(heap, Result, q) = IF Last(q) \in call.keys[2]
                                   THEN Leaf(At(heap0, T0, q)[2] + 1)
                                   ELSE At(heap0, T0, q)

\* the leaf at q is under a key the call selects (keys omitted, or holding it)
SelectedKey(q) == call.keys[1] = "None" \/ Last(q) \in call.keys[2]

\* the i-th invocation of the caller's callable raised
InvocationFails(i) ==
    IF call.op = "map" THEN FuncCall(call.func, fcalls[i][2], i - 1)[1] = "raise"
    ELSE PredCall(call.func, fcalls[i][2], i - 1)[1] = "raise"
FirstFailure == CHOOSE i \in 1..Len(fcalls) : InvocationFails(i) /\ \A j \in 1..(i - 1) : ~InvocationFails(j)

\* C18: when the caller's function fails on a selected leaf, mapLeaves and
\* filterLeaves with permissive = false fail at once with the error "Could not
\* apply the function to <leaf>" that wraps the failure; with permissive = true
\* no error leaves the call, the leaf keeps its key and value, and every other
\* selected leaf is still transformed or filtered.
C18_FailingFunction ==
    ( /\ pc = "returned"
      /\ call.op \in {"map", "filter"}
      /\ call.keys # <<"keys", {}>>
      /\ \E i \in 1..Len(fcalls) : InvocationFails(i) ) =>
        IF ~call.permissive
        THEN /\ err = <<"Exception", fcalls[FirstFailure]>>
             /\ Len(fcalls) = FirstFailure
        ELSE /\ err = NoErr
             /\ call.func = "fail_on_1" =>
                  \A q \in LeafPaths0 :
                      IF ~SelectedKey(q) \/ At(heap0, T0, q) = Leaf(1)
                      THEN /\ q \in NodePaths(heap, Result)
                           /\ At(heap, Result, q) = At(heap0, T0, q)
                      ELSE IF call.op = "map"
                      THEN /\ q \in NodePaths(heap, Result)
                           /\ At(heap, Result, q) = Leaf(At(heap0, T0, q)[2] + 1)
                      ELSE q \notin NodePaths(heap, Result)

\* ---------------------------------------------------------------- filter
\* the value of the predicates that never fail and return a bool
PredTrue(func, x) == IF func = "gt1" THEN x > 1 ELSE x > 4

\* C19: with the default keys and a predicate g that never fails and returns
\* a bool, filterLeaves deletes exactly the items whose value is a leaf v with
\* g(v) false; leaves with g(v) true keep their value, a dictionary is never
\* deleted and never passed to g, and a dictionary that the deletions empty
\* stays as an empty dictionary.  filterLeaves({1:2, 3:{4:5}, 7:2}, v > 4) is
\* {3: {4: 5}}.
C19_FilterLeaves ==
    (Returned("filter") /\ call.func \in {"gt1", "gt4"} /\ call.keys[1] = "None") =>
        /\ err = NoErr
        /\ \A i \in 1..Len(fcalls) : ~IsDict(fcalls[i])
        /\ NodePaths(heap, Result)
             = NodePaths(heap0, T0)
                 \ {q \in LeafPaths0 : ~PredTrue(call.func, At(heap0, T0, q)[2])}
        /\ \A q \in NodePaths(heap, Result) :
             IF IsDict(At(heap0, T0, q)) THEN IsDict(At(heap, Result, q))
             ELSE At(heap, Result, q) = At(heap0, T0, q)
        /\ IsDocFilter =>
             Norm(heap, Result)
               = LitNorm(<<"D", << <<3, <<"D", << <<4, Leaf(5)>> >> >> >> >> >>)

\* a dictionary below the root loses all its items and stays, next to a leaf
\* that is kept
C19_Witness ==
    /\ Returned("filter")
    /\ call.func = "gt1"
    /\ call.keys[1] = "None"
    /\ \E q \in NodePaths(heap, Result) \ {<<>>} :
         /\ IsDict(At(heap, Result, q))
         /\ heap[At(heap, Result, q)[2]] = <<>>
         /\ heap0[At(heap0, T0, q)[2]] # <<>>
    /\ \E q \in NodePaths(heap, Result) : ~IsDict(At(heap, Result, q))

\* C20: when the predicate returns something that is neither True nor False
\* for a selected leaf, filterLeaves raises TypeError naming the returned value
\* and the leaf, with permissive = True as with permissive = False; the leaf is
\* not deleted, and the predicate is not invoked again.
C20_NonBoolPredicate ==
    ( /\ Returned("filter")
      /\ call.func = "none_on_2"
      /\ call.keys # <<"keys", {}>>
      /\ \E q \in LeafPaths0 : SelectedKey(q) /\ At(heap0, T0, q) = Leaf(2) ) =>
        /\ err = <<"TypeError", Leaf(2), "None">>
        /\ ret = NoRet
        /\ Norm(heap, T0) = Norm(heap0, T0)
        /\ Len(fcalls) >= 1
        /\ fcalls[Len(fcalls)] = Leaf(2)
        /\ \A i \in 1..(Len(fcalls) - 1) : fcalls[i] = Leaf(1)

\* in place and permissive, the predicate returns None after it has returned
\* True for another leaf
C20_Witness ==
    /\ Returned("filter")
    /\ call.func = "none_on_2"
    /\ call.permissive
    /\ call.in_place
    /\ err[1] = "TypeError"
    /\ Len(fcalls) >= 2

\* ------------------------------------------------- failures of in-place calls
\* the call has failed with one of the errors the library raises itself
FatalError ==
    \/ call.op \in {"replace", "remove"} /\ err[1] = "KeyError"
    \/ call.op = "remove" /\ err[1] = "ValueError"
    \/ call.op \in {"map", "filter"} /\ err[1] = "Exception"
    \/ call.op = "filter" /\ err[1] = "TypeError"

\* C21: when replace, remove, mapLeaves or filterLeaves called in place fails
\* with KeyError, ValueError, the wrapping Exception or the TypeError of a
\* predicate result, the caller's tree is structurally equal to its value
\* before the call: no leaf already transformed, no key already deleted.
C21_FailureLeavesTree ==
    ( /\ pc = "returned"
      /\ call.op \in {"replace", "remove", "map", "filter"}
      /\ call.in_place
      /\ call.op \in {"map", "filter"} => call.keys # <<"keys", {}>>
      /\ FatalError ) =>
        Norm(heap, T0) = Norm(heap0, T0)

\* the heap on which the call was made: the caller's tree and its argument
CallHeap == IF IsDict(call.value) THEN Append(heap0, heap[call.value[2]]) ELSE heap0

\* what the tree worked on is after the call with result r
Outcome(r) ==
    <<r.err, IF r.err # NoErr THEN <<"None">>
             ELSE Norm(r.h, IF call.in_place THEN T0 ELSE r.ret[2])>>

\* C22: when a key of p before the last is absent, or leads to a leaf instead
\* of a dictionary, replace(T, (p, v)) and remove(T, (p, v)) have the same
\* outcome: the tree is unchanged and no error of any kind is raised.
C22_ReplaceLikeRemove ==
    ( /\ pc = "returned"
      /\ call.op \in {"replace", "remove"}
      /\ ~BranchesOnWay(Path) ) =>
        LET kp == <<call.path, call.value>>
            rep == recursive_replace(CallHeap, T0, kp, call.in_place)
            rem == recursive_remove(CallHeap, T0, kp, call.in_place)
        IN /\ err = NoErr
           /\ Norm(heap, Result) = Norm(heap0, T0)
           /\ Outcome(rep) = <<NoErr, Norm(heap0, T0)>>
           /\ Outcome(rem) = <<NoErr, Norm(heap0, T0)>>

\* C23: mapLeaves invokes the function once on each selected leaf, the value
\* stored is the result of that invocation, and the invocation is guarded: the
\* only error that leaves the call is the wrapping Exception, and none does
\* when permissive = True, also for a function whose outcome differs between
\* two invocations on the same value.
C23_MapInvokesOnce ==
    (Returned("map") /\ call.keys # <<"keys", {}>>) =>
        /\ err[1] \in {"none", "Exception"}
        /\ call.permissive => err = NoErr
        /\ err = NoErr =>
             /\ Len(fcalls) = Cardinality({q \in LeafPaths0 : SelectedKey(q)})
             /\ \A q \in LeafPaths0 :
                  SelectedKey(q) =>
                      \/ At(heap, Result, q) = At(heap0, T0, q)
                      \/ \E i \in 1..Len(fcalls) :
                           /\ fcalls[i] = At(heap0, T0, q)
                           /\ FuncCall(call.func, fcalls[i][2], i - 1)
                                = <<"ok", At(heap, Result, q)>>

====
